---- MODULE Spec2Model ----
(***************************************************************************)
(* Max-Cut / Ising mapping of hybrid-quantum-maxcut.                       *)
(*                                                                         *)
(*   common/graph.py                  N_NODES, EDGES                       *)
(*   quantum/ising_mapping.py         maxcut_ising_terms                   *)
(*   analysis/verify_ising_mapping.py cut_size, ising_energy, bit_flip,    *)
(*                                    normalize_set and the script body    *)
(*   classical/maxcut_bruteforce.py   count_cut_size and the script body   *)
(*                                                                         *)
(* Energies are Python floats that are sums of products of 0.0, 0.5 and    *)
(* +-1; every such value is an exact multiple of 0.5.  The model keeps all *)
(* coefficients and energies in units of one half (the stored integer is   *)
(* twice the float), so 0.5 is HALF = 1 and an energy of -2.0 is -4.       *)
(*                                                                         *)
(* A Python call either returns a value or raises; a result is the record  *)
(* [status, val] with status "ok" or the name of the exception raised.     *)
(***************************************************************************)
EXTENDS Integers, Sequences, FiniteSets

VARIABLES
    edges,                  \* the module global EDGES the functions read
    \* analysis/verify_ising_mapping.py, module level
    vpc, h, J, i, all_cuts, all_energies, max_cut, min_energy,
    max_cut_assignments, min_energy_assignments,
    max_cut_normalized, min_energy_normalized, match,
    \* classical/maxcut_bruteforce.py, module level
    bpc, bi, max_cut_value, best_partition,
    \* one call of a function of the library on a drawn input
    fpc, op, arg, ret

vars == <<edges, vpc, h, J, i, all_cuts, all_energies, max_cut, min_energy,
          max_cut_assignments, min_energy_assignments,
          max_cut_normalized, min_energy_normalized, match,
          bpc, bi, max_cut_value, best_partition, fpc, op, arg, ret>>

verifierVars == <<vpc, h, J, i, all_cuts, all_energies, max_cut, min_energy,
                  max_cut_assignments, min_energy_assignments,
                  max_cut_normalized, min_energy_normalized, match>>
bruteVars == <<bpc, bi, max_cut_value, best_partition>>
callVars == <<fpc, op, arg, ret>>

----------------------------------------------------------------------------
(* Program constants *)

N_NODES == 4
EDGES == << <<0, 1>>, <<0, 2>>, <<1, 3>>, <<2, 3>> >>
\* the float 0.5 of J[(i, j)] = 0.5, in units of one half
HALF == 1
\* the float 0.0 of h = {i: 0.0 ...}, in units of one half
ZERO == 0

(* Bounds of the drawn inputs *)

\* longest drawn edge list
MaxEdges == 2
\* drawn assignments have N_NODES - LenSlack .. N_NODES + LenSlack entries
LenSlack == 1
\* drawn out-of-range endpoints lie in -NodeSlack .. N_NODES - 1 + NodeSlack
NodeSlack == 1

----------------------------------------------------------------------------
(* Python values *)

\* None and a present value
None == << >>
Some(x) == << x >>

Ok(v) == [status |-> "ok", val |-> v]
Raise(e) == [status |-> e, val |-> 0]

\* seq[k] of a Python sequence: 0-based, a negative k counts from the end
PyIndexOK(seq, k) == -Len(seq) <= k /\ k < Len(seq)
PyGet(seq, k) == IF k >= 0 THEN seq[k + 1] ELSE seq[Len(seq) + k + 1]

\* a < b for two tuples of integers, as min(a, b) compares them
RECURSIVE TupleLess(_, _)
TupleLess(a, b) ==
    IF a = << >> THEN b # << >>
    ELSE IF b = << >> THEN FALSE
    ELSE IF Head(a) # Head(b) THEN Head(a) < Head(b)
    ELSE TupleLess(Tail(a), Tail(b))

\* min(a, b): the first argument unless the second is strictly smaller
TupleMin(a, b) == IF TupleLess(b, a) THEN b ELSE a

\* 2 ** n
RECURSIVE Pow2(_)
Pow2(n) == IF n = 0 THEN 1 ELSE 2 * Pow2(n - 1)

\* tuple((k >> j) & 1 for j in range(N_NODES))
assignment_of(k) == [j \in 1..N_NODES |-> (k \div Pow2(j - 1)) % 2]

\* a dict kept as the sequence of its items in insertion order;
\* d[k] = v overwrites the value of a present key in place
DictKeys(d) == {d[n].key : n \in 1..Len(d)}
DictSet(d, k, v) ==
    IF k \in DictKeys(d)
    THEN [n \in 1..Len(d) |-> IF d[n].key = k THEN [key |-> k, val |-> v] ELSE d[n]]
    ELSE Append(d, [key |-> k, val |-> v])
DictValues(d) == {d[n].val : n \in 1..Len(d)}

SetMax(S) == CHOOSE x \in S : \A y \in S : y <= x
SetMin(S) == CHOOSE x \in S : \A y \in S : x <= y

----------------------------------------------------------------------------
(* quantum/ising_mapping.py *)

\* h = {i: 0.0 for i in range(N_NODES)}
local_fields == [n \in 0..(N_NODES - 1) |-> ZERO]

\* store_coupling with the sign of the coupling inverted (J = -0.5)
store_coupling_negative(Jd, edge) ==
    LET a == edge[1]
        b == edge[2]
    IN IF a < b THEN DictSet(Jd, <<a, b>>, 0 - HALF)
                ELSE DictSet(Jd, <<b, a>>, 0 - HALF)

\* store_coupling without the canonical order: the key is the edge as listed
store_coupling_as_listed(Jd, edge) ==
    DictSet(Jd, <<edge[1], edge[2]>>, HALF)

\* the body of "for edge in EDGES"
store_coupling(Jd, edge) ==
    LET a == edge[1]
        b == edge[2]
    IN IF a < b THEN DictSet(Jd, <<a, b>>, HALF)
                ELSE DictSet(Jd, <<b, a>>, HALF)

RECURSIVE couplings(_, _)
couplings(Jd, es) ==
    IF es = << >> THEN Jd
    ELSE couplings(store_coupling(Jd, Head(es)), Tail(es))

maxcut_ising_terms == [h |-> local_fields, J |-> couplings(<< >>, edges)]

----------------------------------------------------------------------------
(* analysis/verify_ising_mapping.py: functions *)

\* cut_loop counting an edge only when it leaves side 0 for side 1
RECURSIVE cut_loop_directed(_, _, _)
cut_loop_directed(assignment, es, size) ==
    IF es = << >> THEN Ok(size)
    ELSE LET u == Head(es)[1]
             v == Head(es)[2]
         IN IF ~PyIndexOK(assignment, u) \/ ~PyIndexOK(assignment, v)
            THEN Raise("IndexError")
            ELSE cut_loop_directed(assignment, Tail(es),
                          IF PyGet(assignment, u) < PyGet(assignment, v)
                          THEN size + 1 ELSE size)

RECURSIVE cut_loop(_, _, _)
cut_loop(assignment, es, size) ==
    IF es = << >> THEN Ok(size)
    ELSE LET u == Head(es)[1]
             v == Head(es)[2]
         IN IF ~PyIndexOK(assignment, u) \/ ~PyIndexOK(assignment, v)
            THEN Raise("IndexError")
            ELSE cut_loop(assignment, Tail(es),
                          IF PyGet(assignment, u) # PyGet(assignment, v)
                          THEN size + 1 ELSE size)

cut_size(assignment) == cut_loop(assignment, edges, 0)

\* spins_of leaving bit 1 at spin 0 instead of -1
spins_of_unsigned(assignment) ==
    [n \in 1..Len(assignment) |-> IF assignment[n] = 0 THEN 1 ELSE 0]

\* spins = [1 if bit == 0 else -1 for bit in assignment]
spins_of(assignment) ==
    [n \in 1..Len(assignment) |-> IF assignment[n] = 0 THEN 1 ELSE -1]

\* sum(h[i] * spins[i] for i in range(N_NODES)), from index n on
RECURSIVE field_sum(_, _, _, _)
field_sum(hd, spins, n, acc) ==
    IF n = N_NODES THEN Ok(acc)
    ELSE IF n \notin DOMAIN hd THEN Raise("KeyError")
    ELSE IF ~PyIndexOK(spins, n) THEN Raise("IndexError")
    ELSE field_sum(hd, spins, n + 1, acc + hd[n] * PyGet(spins, n))

\* coupling_sum multiplying by one spin only
RECURSIVE coupling_sum_one_spin(_, _, _)
coupling_sum_one_spin(Jd, spins, energy) ==
    IF Jd = << >> THEN Ok(energy)
    ELSE LET a == Head(Jd).key[1]
             b == Head(Jd).key[2]
         IN IF ~PyIndexOK(spins, a) \/ ~PyIndexOK(spins, b)
            THEN Raise("IndexError")
            ELSE coupling_sum_one_spin(Tail(Jd), spins,
                     energy + Head(Jd).val * PyGet(spins, a))

\* for (i, j), coeff in J.items(): energy += coeff * spins[i] * spins[j]
RECURSIVE coupling_sum(_, _, _)
coupling_sum(Jd, spins, energy) ==
    IF Jd = << >> THEN Ok(energy)
    ELSE LET a == Head(Jd).key[1]
             b == Head(Jd).key[2]
         IN IF ~PyIndexOK(spins, a) \/ ~PyIndexOK(spins, b)
            THEN Raise("IndexError")
            ELSE coupling_sum(Tail(Jd), spins,
                     energy + Head(Jd).val * PyGet(spins, a) * PyGet(spins, b))

ising_energy(assignment, hd, Jd) ==
    LET spins == spins_of(assignment)
        local == field_sum(hd, spins, 0, 0)
    IN IF local.status # "ok" THEN local
       ELSE coupling_sum(Jd, spins, local.val)

\* tuple(1 - bit for bit in assignment)
bit_flip(assignment) == [n \in 1..Len(assignment) |-> 1 - assignment[n]]

\* normalize_set adding each assignment itself, not the smaller of the pair
normalize_set_unreduced(assignments) ==
    {assignments[n] : n \in 1..Len(assignments)}

normalize_set(assignments) ==
    {TupleMin(assignments[n], bit_flip(assignments[n])) : n \in 1..Len(assignments)}

\* keys_with_value stopping at the first hit
keys_with_value_first(d, value) ==
    LET hit(item) == item.val = value
        items == SelectSeq(d, hit)
    IN [n \in 1..(IF Len(items) = 0 THEN 0 ELSE 1) |-> items[n].key]

\* [a for a, c in d.items() if c == value]
keys_with_value(d, value) ==
    LET hit(item) == item.val = value
        items == SelectSeq(d, hit)
    IN [n \in 1..Len(items) |-> items[n].key]

----------------------------------------------------------------------------
(* classical/maxcut_bruteforce.py: function *)

RECURSIVE count_loop(_, _, _)
count_loop(partition, es, size) ==
    IF es = << >> THEN Ok(size)
    ELSE LET u == Head(es)[1]
             v == Head(es)[2]
         IN IF ~PyIndexOK(partition, u) \/ ~PyIndexOK(partition, v)
            THEN Raise("IndexError")
            ELSE count_loop(partition, Tail(es),
                            IF PyGet(partition, u) # PyGet(partition, v)
                            THEN size + 1 ELSE size)

count_cut_size(partition, es) == count_loop(partition, es, 0)

----------------------------------------------------------------------------
(* analysis/verify_ising_mapping.py: the script, one step per statement     *)
(* group.  A name the script has not bound yet holds a placeholder that no  *)
(* step reads.  An exception ends the script ("error").                     *)

\* h, J = maxcut_ising_terms()
GetIsingTerms ==
    /\ vpc = "terms"
    /\ h' = maxcut_ising_terms.h
    /\ J' = maxcut_ising_terms.J
    /\ vpc' = "loop"
    /\ UNCHANGED <<edges, i, all_cuts, all_energies, max_cut, min_energy,
                   max_cut_assignments, min_energy_assignments,
                   max_cut_normalized, min_energy_normalized, match>>
    /\ UNCHANGED bruteVars
    /\ UNCHANGED callVars

\* one iteration of "for i in range(2 ** N_NODES)"
Enumerate ==
    /\ vpc = "loop"
    /\ i < Pow2(N_NODES)
    /\ LET assignment == assignment_of(i)
           cut == cut_size(assignment)
           energy == ising_energy(assignment, h, J)
       IN IF cut.status # "ok" \/ energy.status # "ok"
          THEN /\ vpc' = "error"
               /\ UNCHANGED <<i, all_cuts, all_energies>>
          ELSE /\ all_cuts' = DictSet(all_cuts, assignment, cut.val)
               /\ all_energies' = DictSet(all_energies, assignment, energy.val)
               /\ i' = i + 1
               /\ vpc' = "loop"
    /\ UNCHANGED <<edges, h, J, max_cut, min_energy,
                   max_cut_assignments, min_energy_assignments,
                   max_cut_normalized, min_energy_normalized, match>>
    /\ UNCHANGED bruteVars
    /\ UNCHANGED callVars

\* max_cut, min_energy and the assignments achieving them
FindExtrema ==
    /\ vpc = "loop"
    /\ i = Pow2(N_NODES)
    /\ LET mc == SetMax(DictValues(all_cuts))
           me == SetMin(DictValues(all_energies))
       IN /\ max_cut' = mc
          /\ min_energy' = me
          /\ max_cut_assignments' = keys_with_value(all_cuts, mc)
          /\ min_energy_assignments' = keys_with_value(all_energies, me)
    /\ vpc' = "normalize"
    /\ UNCHANGED <<edges, h, J, i, all_cuts, all_energies,
                   max_cut_normalized, min_energy_normalized, match>>
    /\ UNCHANGED bruteVars
    /\ UNCHANGED callVars

\* max_cut_normalized, min_energy_normalized and match
Normalize ==
    /\ vpc = "normalize"
    /\ LET mcn == normalize_set(max_cut_assignments)
           men == normalize_set(min_energy_assignments)
       IN /\ max_cut_normalized' = mcn
          /\ min_energy_normalized' = men
          /\ match' = (mcn = men)
    /\ vpc' = "done"
    /\ UNCHANGED <<edges, h, J, i, all_cuts, all_energies, max_cut, min_energy,
                   max_cut_assignments, min_energy_assignments>>
    /\ UNCHANGED bruteVars
    /\ UNCHANGED callVars

----------------------------------------------------------------------------
(* classical/maxcut_bruteforce.py: the script *)

\* BruteStep updating on "cut_size >= max_cut_value" instead of ">"
BruteStep_on_ties ==
    /\ bpc = "loop"
    /\ bi < Pow2(N_NODES)
    /\ LET partition == assignment_of(bi)
           cs == count_cut_size(partition, edges)
       IN IF cs.status # "ok"
          THEN /\ bpc' = "error"
               /\ UNCHANGED <<bi, max_cut_value, best_partition>>
          ELSE /\ IF cs.val >= max_cut_value
                  THEN /\ max_cut_value' = cs.val
                       /\ best_partition' = Some(partition)
                  ELSE UNCHANGED <<max_cut_value, best_partition>>
               /\ bi' = bi + 1
               /\ bpc' = "loop"
    /\ UNCHANGED edges
    /\ UNCHANGED verifierVars
    /\ UNCHANGED callVars

\* one iteration of "for i in range(2 ** N_NODES)"
BruteStep ==
    /\ bpc = "loop"
    /\ bi < Pow2(N_NODES)
    /\ LET partition == assignment_of(bi)
           cs == count_cut_size(partition, edges)
       IN IF cs.status # "ok"
          THEN /\ bpc' = "error"
               /\ UNCHANGED <<bi, max_cut_value, best_partition>>
          ELSE /\ IF cs.val > max_cut_value
                  THEN /\ max_cut_value' = cs.val
                       /\ best_partition' = Some(partition)
                  ELSE UNCHANGED <<max_cut_value, best_partition>>
               /\ bi' = bi + 1
               /\ bpc' = "loop"
    /\ UNCHANGED edges
    /\ UNCHANGED verifierVars
    /\ UNCHANGED callVars

\* the loop is exhausted; the results are printed
BruteFinish ==
    /\ bpc = "loop"
    /\ bi = Pow2(N_NODES)
    /\ bpc' = "done"
    /\ UNCHANGED <<edges, bi, max_cut_value, best_partition>>
    /\ UNCHANGED verifierVars
    /\ UNCHANGED callVars

----------------------------------------------------------------------------
(* The two scripts on the graph of common/graph.py *)

Init ==
    /\ edges = EDGES
    /\ vpc = "terms"
    /\ h = << >>
    /\ J = << >>
    /\ i = 0
    /\ all_cuts = << >>
    /\ all_energies = << >>
    /\ max_cut = 0
    /\ min_energy = 0
    /\ max_cut_assignments = << >>
    /\ min_energy_assignments = << >>
    /\ max_cut_normalized = {}
    /\ min_energy_normalized = {}
    /\ match = FALSE
    /\ bpc = "loop"
    /\ bi = 0
    /\ max_cut_value = 0
    /\ best_partition = None
    /\ fpc = "off"
    /\ op = "none"
    /\ arg = << >>
    /\ ret = Ok(0)

Next ==
    \/ GetIsingTerms
    \/ Enumerate
    \/ FindExtrema
    \/ Normalize
    \/ BruteStep
    \/ BruteFinish

Spec == Init /\ [][Next]_vars

----------------------------------------------------------------------------
(* One call of the library on a drawn graph and a drawn assignment:        *)
(* maxcut_ising_terms() first, as verify_ising_mapping.py does, then one   *)
(* call of cut_size or of ising_energy with the (h, J) it returned.        *)

\* lists of at most MaxEdges pairs over the endpoints S
EdgeLists(S) == UNION {[1..n -> S \X S] : n \in 0..MaxEdges}

Nodes == 0..(N_NODES - 1)
WideNodes == (0 - NodeSlack)..(N_NODES - 1 + NodeSlack)

OutOfRange(es) ==
    \E n \in 1..Len(es) : es[n][1] \notin Nodes \/ es[n][2] \notin Nodes

\* tuples of 0/1 values of the drawn lengths
DrawnAssignments ==
    UNION {[1..n -> {0, 1}] : n \in (N_NODES - LenSlack)..(N_NODES + LenSlack)}

CallMaxcutIsingTerms ==
    /\ fpc = "start"
    /\ op' = "maxcut_ising_terms"
    /\ ret' = Ok(maxcut_ising_terms)
    /\ h' = maxcut_ising_terms.h
    /\ J' = maxcut_ising_terms.J
    /\ fpc' = "terms"
    /\ UNCHANGED <<edges, arg, vpc, i, all_cuts, all_energies, max_cut, min_energy,
                   max_cut_assignments, min_energy_assignments,
                   max_cut_normalized, min_energy_normalized, match>>
    /\ UNCHANGED bruteVars

CallCutSize ==
    /\ fpc = "terms"
    /\ \E a \in DrawnAssignments :
          /\ arg' = a
          /\ ret' = cut_size(a)
    /\ op' = "cut_size"
    /\ fpc' = "returned"
    /\ UNCHANGED edges
    /\ UNCHANGED verifierVars
    /\ UNCHANGED bruteVars

CallIsingEnergy ==
    /\ fpc = "terms"
    /\ \E a \in DrawnAssignments :
          /\ arg' = a
          /\ ret' = ising_energy(a, h, J)
    /\ op' = "ising_energy"
    /\ fpc' = "returned"
    /\ UNCHANGED edges
    /\ UNCHANGED verifierVars
    /\ UNCHANGED bruteVars

InitCall ==
    /\ vpc = "off"
    /\ h = << >>
    /\ J = << >>
    /\ i = 0
    /\ all_cuts = << >>
    /\ all_energies = << >>
    /\ max_cut = 0
    /\ min_energy = 0
    /\ max_cut_assignments = << >>
    /\ min_energy_assignments = << >>
    /\ max_cut_normalized = {}
    /\ min_energy_normalized = {}
    /\ match = FALSE
    /\ bpc = "off"
    /\ bi = 0
    /\ max_cut_value = 0
    /\ best_partition = None
    /\ fpc = "start"
    /\ op = "none"
    /\ arg = << >>
    /\ ret = Ok(0)

\* every edge list over the nodes, and the graph of common/graph.py
InitFn ==
    /\ edges \in EdgeLists(Nodes) \cup {EDGES}
    /\ InitCall

\* the edge lists with an endpoint outside 0..N_NODES-1
InitErr ==
    /\ edges \in {es \in EdgeLists(WideNodes) : OutOfRange(es)}
    /\ InitCall

NextFn ==
    \/ CallMaxcutIsingTerms
    \/ CallCutSize
    \/ CallIsingEnergy

SpecFn == InitFn /\ [][NextFn]_vars

SpecErr == InitErr /\ [][NextFn]_vars

----------------------------------------------------------------------------
(* Properties *)

AllAssignments == [1..N_NODES -> {0, 1}]
Members(seq) == {seq[n] : n \in 1..Len(seq)}
Collapse(S) == {TupleMin(a, bit_flip(a)) : a \in S}

\* the extrema over {0,1}^N_NODES, taken directly from the functions
BestCut == SetMax({cut_size(a).val : a \in AllAssignments})
ArgMaxCut == {a \in AllAssignments : cut_size(a).val = BestCut}
LeastEnergy == SetMin({ising_energy(a, h, J).val : a \in AllAssignments})
ArgMinEnergy == {a \in AllAssignments : ising_energy(a, h, J).val = LeastEnergy}

\* an undirected edge, smaller endpoint first
Canon(edge) ==
    IF edge[1] < edge[2] THEN <<edge[1], edge[2]>> ELSE <<edge[2], edge[1]>>
\* no undirected edge is listed twice
EachEdgeOnce(es) ==
    \A m, n \in 1..Len(es) : Canon(es[m]) = Canon(es[n]) => m = n

(* C1: on the fixed graph the verifier ends with match = True: the set of   *)
(* maximum-cut assignments of {0,1}^4 and the set of minimum-energy         *)
(* assignments, each collapsed by min(a, bit_flip(a)), are the same set,    *)
(* and they are the two sets the script compares.                           *)
C1_VerdictTrue ==
    vpc = "done" =>
        /\ match = TRUE
        /\ Collapse(ArgMaxCut) = Collapse(ArgMinEnergy)
        /\ max_cut_normalized = Collapse(ArgMaxCut)
        /\ min_energy_normalized = Collapse(ArgMinEnergy)

C1_Witness ==
    /\ vpc = "done"
    /\ match = TRUE
    /\ max_cut_normalized # {}

(* C2: on the fixed graph the largest cut_size over the 16 assignments is   *)
(* 4; the verifier ends with max_cut = 4 and the brute-force solver with    *)
(* max_cut_value = 4.                                                       *)
C2_MaxCutIsFour ==
    /\ BestCut = 4
    /\ Cardinality(AllAssignments) = 16
    /\ vpc = "done" => max_cut = 4
    /\ bpc = "done" => max_cut_value = 4

C2_Witness ==
    /\ vpc = "done"
    /\ bpc = "done"
    /\ max_cut = 4
    /\ max_cut_value = 4

(* C3 as stated: (0,0,1,1) and its bit-flip (1,1,0,0) are members of        *)
(* max_cut_assignments, each with cut size 4.                               *)
C3_AsStated ==
    vpc = "done" =>
        /\ <<0, 0, 1, 1>> \in Members(max_cut_assignments)
        /\ <<1, 1, 0, 0>> \in Members(max_cut_assignments)
        /\ cut_size(<<0, 0, 1, 1>>) = Ok(4)
        /\ cut_size(<<1, 1, 0, 0>>) = Ok(4)

(* C3 amended: (0,1,1,0) and its bit-flip (1,0,0,1) are members of          *)
(* max_cut_assignments, each with the maximum cut size 4; (0,0,1,1) and     *)
(* (1,1,0,0) have cut size 2 and are not members.                           *)
C3_OptimalPair ==
    vpc = "done" =>
        /\ <<0, 1, 1, 0>> \in Members(max_cut_assignments)
        /\ <<1, 0, 0, 1>> \in Members(max_cut_assignments)
        /\ bit_flip(<<0, 1, 1, 0>>) = <<1, 0, 0, 1>>
        /\ cut_size(<<0, 1, 1, 0>>) = Ok(max_cut)
        /\ cut_size(<<1, 0, 0, 1>>) = Ok(max_cut)
        /\ max_cut = 4
        /\ cut_size(<<0, 0, 1, 1>>) = Ok(2)
        /\ cut_size(<<1, 1, 0, 0>>) = Ok(2)
        /\ <<0, 0, 1, 1>> \notin Members(max_cut_assignments)
        /\ <<1, 1, 0, 0>> \notin Members(max_cut_assignments)

C3_Witness ==
    /\ vpc = "done"
    /\ Len(max_cut_assignments) = 2
    /\ <<0, 1, 1, 0>> \in Members(max_cut_assignments)

(* C4 as stated: the normalized set of maximum-cut assignments has exactly  *)
(* 2 elements.                                                              *)
C4_AsStated ==
    vpc = "done" => Cardinality(max_cut_normalized) = 2

(* C4 amended: the normalized set of maximum-cut assignments, equal to      *)
(* min_energy_normalized, has exactly 1 element, (0,1,1,0): the only two    *)
(* optimal assignments are bit-flips of one another.                        *)
C4_OneColoring ==
    vpc = "done" =>
        /\ Cardinality(max_cut_normalized) = 1
        /\ max_cut_normalized = {<<0, 1, 1, 0>>}
        /\ max_cut_normalized = min_energy_normalized
        /\ Members(max_cut_assignments) = {<<0, 1, 1, 0>>, <<1, 0, 0, 1>>}

C4_Witness ==
    /\ vpc = "done"
    /\ max_cut_normalized = {<<0, 1, 1, 0>>}
    /\ min_energy_normalized = {<<0, 1, 1, 0>>}

(* C5: for every edge list over the nodes and every assignment A of         *)
(* N_NODES bits, cut_size(A) returns the number cut_size(bit_flip(A))       *)
(* returns.                                                                 *)
C5_CutFlipSymmetry ==
    (fpc = "returned" /\ op = "cut_size" /\ Len(arg) = N_NODES) =>
        /\ ret.status = "ok"
        /\ cut_size(bit_flip(arg)) = ret

C5_Witness ==
    /\ fpc = "returned"
    /\ op = "cut_size"
    /\ Len(arg) = N_NODES
    /\ edges # EDGES
    /\ ret = Ok(2)
    /\ bit_flip(arg) # arg

(* C6: with the (h, J) maxcut_ising_terms() returns, h identically 0, every *)
(* assignment A of N_NODES bits has ising_energy(A, h, J) =                 *)
(* ising_energy(bit_flip(A), h, J).                                         *)
C6_EnergyFlipSymmetry ==
    (fpc = "returned" /\ op = "ising_energy" /\ Len(arg) = N_NODES) =>
        /\ \A n \in DOMAIN h : h[n] = ZERO
        /\ ret.status = "ok"
        /\ ising_energy(bit_flip(arg), h, J) = ret

C6_Witness ==
    /\ fpc = "returned"
    /\ op = "ising_energy"
    /\ Len(arg) = N_NODES
    /\ Len(J) = 2
    /\ ret = Ok(0 - 2)

(* C7: maxcut_ising_terms() returns h with exactly the keys 0..N_NODES-1,   *)
(* each mapped to 0, and J with exactly one key per undirected edge of      *)
(* EDGES, smaller endpoint first, each mapped to +0.5: a reversed or        *)
(* repeated edge yields the one key, no key is not an edge, and a key       *)
(* (i, j) has i < j (i = j only for a listed self-loop (i, i)).             *)
C7_TermsShape ==
    fpc # "start" =>
        /\ DOMAIN h = 0..(N_NODES - 1)
        /\ \A n \in DOMAIN h : h[n] = ZERO
        /\ \A m, n \in 1..Len(J) : J[m].key = J[n].key => m = n
        /\ DictKeys(J) = {Canon(edges[n]) : n \in 1..Len(edges)}
        /\ \A n \in 1..Len(J) : J[n].val = HALF
        /\ \A k \in DictKeys(J) :
              \/ k[1] < k[2]
              \/ k[1] = k[2] /\ <<k[1], k[1]>> \in Members(edges)

C7_Witness ==
    /\ fpc = "terms"
    /\ edges = << <<1, 0>>, <<0, 1>> >>
    /\ J = << [key |-> <<0, 1>>, val |-> HALF] >>

(* C8: cut_size and ising_energy called with an assignment whose length     *)
(* differs from N_NODES end in an error and never return a number.          *)
C8_LengthMismatchFails ==
    (fpc = "returned" /\ op \in {"cut_size", "ising_energy"}
        /\ Len(arg) # N_NODES) => ret.status # "ok"

(* C9: when the edge list has an endpoint outside 0..N_NODES-1,             *)
(* maxcut_ising_terms and cut_size (on an assignment of N_NODES bits) fail  *)
(* with an error instead of returning a mapping or a cut value.             *)
C9_BadEdgeFails ==
    OutOfRange(edges) =>
        /\ (fpc = "terms" /\ op = "maxcut_ising_terms") => ret.status # "ok"
        /\ (fpc = "returned" /\ op = "cut_size" /\ Len(arg) = N_NODES)
              => ret.status # "ok"

(* C10: with J = +0.5 per edge and h = 0, every assignment A of N_NODES     *)
(* bits has 2 * ising_energy(A, h, J) = |E| - 2 * cut_size(A), E the edges  *)
(* each listed once; on the fixed graph energy = 2 - cut, the minimum       *)
(* energy is -2, and cut_size(A) > cut_size(B) exactly when                 *)
(* ising_energy(A) < ising_energy(B).  (Energies in units of one half.)     *)
C10_EnergyIsHalfEdgesMinusCut ==
    /\ (fpc = "returned" /\ op = "ising_energy" /\ Len(arg) = N_NODES
            /\ EachEdgeOnce(edges)) =>
          /\ ret.status = "ok"
          /\ cut_size(arg).status = "ok"
          /\ ret.val = Len(edges) - 2 * cut_size(arg).val
          /\ edges = EDGES => ret.val = 2 * (2 - cut_size(arg).val)
    /\ (fpc = "terms" /\ edges = EDGES) =>
          /\ LeastEnergy = 2 * (0 - 2)
          /\ \A a, b \in AllAssignments :
                (cut_size(a).val > cut_size(b).val)
                    <=> (ising_energy(a, h, J).val < ising_energy(b, h, J).val)

C10_Witness ==
    /\ fpc = "returned"
    /\ op = "ising_energy"
    /\ edges = EDGES
    /\ arg = <<0, 1, 1, 0>>
    /\ ret = Ok(0 - 4)

----------------------------------------------------------------------------
(* classical/maxcut_bruteforce.py on a drawn graph *)

\* every edge list over the nodes (the empty one included), and the graph
\* of common/graph.py
InitBrute ==
    /\ edges \in EdgeLists(Nodes) \cup {EDGES}
    /\ vpc = "off"
    /\ h = << >>
    /\ J = << >>
    /\ i = 0
    /\ all_cuts = << >>
    /\ all_energies = << >>
    /\ max_cut = 0
    /\ min_energy = 0
    /\ max_cut_assignments = << >>
    /\ min_energy_assignments = << >>
    /\ max_cut_normalized = {}
    /\ min_energy_normalized = {}
    /\ match = FALSE
    /\ bpc = "loop"
    /\ bi = 0
    /\ max_cut_value = 0
    /\ best_partition = None
    /\ fpc = "off"
    /\ op = "none"
    /\ arg = << >>
    /\ ret = Ok(0)

NextBrute ==
    \/ BruteStep
    \/ BruteFinish

SpecBrute == InitBrute /\ [][NextBrute]_vars

\* the cut sizes of the partitions 0 .. bi-1 the loop has enumerated
EnumeratedCuts == {count_cut_size(assignment_of(k), edges).val : k \in 0..(bi - 1)}
\* the largest of them, 0 when there is none
LargestEnumerated == SetMax(EnumeratedCuts \cup {0})
\* the lowest index whose partition reaches the largest cut
FirstReaching ==
    SetMin({k \in 0..(bi - 1) :
               count_cut_size(assignment_of(k), edges).val = LargestEnumerated})

C11_LoopState ==
    /\ bpc \in {"loop", "done"}
    /\ bi \in 0..Pow2(N_NODES)
    /\ bpc = "done" => bi = Pow2(N_NODES)
    /\ bi = 0 => max_cut_value = 0 /\ best_partition = None
    /\ max_cut_value = LargestEnumerated
    /\ IF LargestEnumerated >= 1
       THEN best_partition = Some(assignment_of(FirstReaching))
       ELSE best_partition = None
    /\ (bpc = "done" /\ edges = << >>) => best_partition = None
    /\ (bpc = "done" /\ edges = EDGES) =>
          /\ best_partition = Some(<<0, 1, 1, 0>>)
          /\ count_cut_size(best_partition[1], EDGES) = Ok(max_cut_value)

(* C11: in the brute-force loop over i = 0 .. 2^N_NODES - 1, after every    *)
(* iteration max_cut_value is the largest cut size among the partitions     *)
(* enumerated so far (0 at the start, never decreasing) and best_partition  *)
(* is the lowest-index partition reaching it when it is at least 1, None    *)
(* while no enumerated partition has a positive cut (so None at the end for *)
(* an empty edge list); on the fixed graph the loop ends with               *)
(* best_partition = (0,1,1,0) and count_cut_size(best_partition, EDGES) =   *)
(* max_cut_value.                                                           *)
C11_BruteForceLoop ==
    /\ []C11_LoopState
    /\ [][max_cut_value' >= max_cut_value]_vars

C11_Witness ==
    /\ bpc = "done"
    /\ edges = EDGES
    /\ max_cut_value = 4
    /\ best_partition = Some(<<0, 1, 1, 0>>)

====
